---- MODULE Spec2Model ----
(***************************************************************************)
(* Model of the RAMCloud storage-server main program (src/ServerMain.cc).  *)
(*                                                                         *)
(* One behaviour is one run of main(): the command line (argv) and the     *)
(* host's total memory are fixed by Init, and each action is one stretch   *)
(* of main() between two points where the run can leave by an exception.   *)
(* The collaborators whose code is outside ServerMain.cc (OptionParser,    *)
(* TransportManager, ServerConfig::setLogAndHashTableSize, Server, DIE)    *)
(* are modelled by their contract.                                         *)
(***************************************************************************)
EXTENDS Integers, Sequences, FiniteSets, TLC

VARIABLES
    argv,       \* the command line: a sequence of tokens, argv[1] the program
    totalMem,   \* total system memory of the host, as a byte quantity
    pc,         \* position of main()
    opts,       \* values bound by the option parser (locals of main + options)
    config,     \* ServerConfig config
    tm,         \* context.transportManager
    log,        \* the log: sequence of entries, oldest first
    exitCode,   \* value returned by main(): -1 while it runs
    hist,       \* history of the run (not program state)
    backup      \* the backup's storage: segment frames and the replicas reused

vars == <<argv, totalMem, pc, opts, config, tm, log, exitCode, hist, backup>>

-----------------------------------------------------------------------------
(* Bounds of the model.                                                    *)

MaxReplicas == 1        \* --replicas takes values 1..MaxReplicas when given
MaxTimeout == 1         \* --timeout takes values 1..MaxTimeout when given
MaxFrames == 2          \* segment frames of the backup's storage

-----------------------------------------------------------------------------
(* Byte quantities.  A quantity is [mb, b] = mb * 2^20 + b bytes with      *)
(* 0 <= b < 2^20, so that quantities of several gigabytes (uint64_t in the *)
(* program) are computed exactly.                                          *)

MB == 1048576

Bytes(m, r) == [mb |-> m + (r \div MB), b |-> r % MB]

Zero == Bytes(0, 0)

\* mutant: a number is taken as a count of bytes
Megabytes_AsBytes(n) == Bytes(0, n)

Megabytes(n) == Bytes(n, 0)

LessEq(x, y) == x.mb < y.mb \/ (x.mb = y.mb /\ x.b <= y.b)

\* x - y, for LessEq(y, x)
Minus(x, y) ==
    IF x.b >= y.b THEN [mb |-> x.mb - y.mb, b |-> x.b - y.b]
    ELSE [mb |-> x.mb - y.mb - 1, b |-> x.b + MB - y.b]

Plus(x, y) == Bytes(x.mb + y.mb, x.b + y.b)

\* mutant: the fraction of a byte is dropped
PercentOf_Floor(x, p) ==
    LET hp == x.mb * p
        rest == (hp % 100) * MB + x.b * p
    IN  Bytes(hp \div 100, rest \div 100)

\* round(x * p / 100), halves rounded up, for 0 <= p <= 100
PercentOf(x, p) ==
    LET hp == x.mb * p
        rest == (hp % 100) * MB + x.b * p + 50
    IN  Bytes(hp \div 100, rest \div 100)

-----------------------------------------------------------------------------
(* Text.  A string that the program parses is a sequence of one-character  *)
(* strings.                                                                *)

Digits == <<"0", "1", "2", "3", "4", "5", "6", "7", "8", "9">>

IsDigit(c) == \E i \in 1..10 : Digits[i] = c

DigitVal(c) == (CHOOSE i \in 1..10 : Digits[i] = c) - 1

RECURSIVE ParseNatAcc(_, _, _)
ParseNatAcc(s, i, acc) ==
    IF i > Len(s) THEN acc
    ELSE IF ~IsDigit(s[i]) THEN -1
    ELSE ParseNatAcc(s, i + 1, acc * 10 + DigitVal(s[i]))

\* the decimal number written by s, or -1 when s is not a non-empty digit string
ParseNat(s) == IF Len(s) = 0 THEN -1 ELSE ParseNatAcc(s, 1, 0)

RECURSIVE NatToText(_)
NatToText(n) ==
    IF n < 10 THEN <<Digits[n + 1]>>
    ELSE Append(NatToText(n \div 10), Digits[(n % 10) + 1])

-----------------------------------------------------------------------------
(* The command line.  One element of argv is a token [name, val]: the      *)
(* option's name and the text of its value (empty for a switch).  A        *)
(* locator value is a one-element text holding the locator string.         *)

Tok(n, v) == [name |-> n, val |-> v]

Pct(n) == Append(NatToText(n), "%")

\* size directives a user may give: valid and invalid percentages, valid
\* megabyte counts, a negative number and a word
PctValues == {10, 50, 100, 0, 101}

MbValues == {0, 1, 2048}

SizeDirectives ==
    { Pct(p) : p \in PctValues } \cup { NatToText(n) : n \in MbValues }
        \cup { <<"-", "5">>, <<"a", "b", "c">> }

RequestedLocator == "tcp:host=a,port=0"

BoundLocator == "tcp:host=a,port=40000"

CoordLocator == "tcp:host=c,port=12246"

RoleArgs ==
    { <<>>, <<Tok("-M", <<>>)>>, <<Tok("-B", <<>>)>>,
      <<Tok("-B", <<>>), Tok("-M", <<>>)>> }

TotalArgs == {<<>>} \cup { <<Tok("-t", d)>> : d \in SizeDirectives }

HashArgs == {<<>>} \cup { <<Tok("-h", d)>> : d \in SizeDirectives }

ReplicaArgs == {<<>>} \cup { <<Tok("-r", NatToText(n))>> : n \in 1..MaxReplicas }

TimeoutArgs ==
    {<<>>} \cup { <<Tok("--timeout", NatToText(n))>> : n \in 1..MaxTimeout }

LocalArgs == { <<>>, <<Tok("-L", <<RequestedLocator>>)>> }

CoordArgs == { <<>>, <<Tok("-C", <<CoordLocator>>)>> }

\* an argument the option parser rejects
BadArgs == { <<>>, <<Tok("--bogus", <<>>)>> }

ArgvSet ==
    { <<Tok("server", <<>>)>> \o r \o t \o h \o n \o to \o l \o c \o x :
        r \in RoleArgs, t \in TotalArgs, h \in HashArgs, n \in ReplicaArgs,
        to \in TimeoutArgs, l \in LocalArgs, c \in CoordArgs, x \in BadArgs }

\* total memory of the hosts considered: 8192MB, 16384MB and an odd size
TotalMemories == { Megabytes(8192), Megabytes(16384), Bytes(1024, 7) }

-----------------------------------------------------------------------------
(* Option binding: the options declared by main() and the shared ones      *)
(* (local locator, coordinator locator, transport timeout).                *)

Defaults ==
    [ ok |-> TRUE,
      masterOnly |-> FALSE,
      backupOnly |-> FALSE,
      hashTableMemory |-> Pct(10),
      masterTotalMemory |-> Pct(10),
      numReplicas |-> 0,
      localLocator |-> "",
      coordinatorLocator |-> "",
      transportTimeout |-> 0,
      clusterName |-> "" ]

BindOption(o, a) ==
    CASE a.name = "-B" -> [o EXCEPT !.backupOnly = TRUE]
      [] a.name = "-M" -> [o EXCEPT !.masterOnly = TRUE]
      [] a.name = "-t" -> [o EXCEPT !.masterTotalMemory = a.val]
      [] a.name = "-h" -> [o EXCEPT !.hashTableMemory = a.val]
      [] a.name = "-r" ->
            IF ParseNat(a.val) = -1 THEN [o EXCEPT !.ok = FALSE]
            ELSE [o EXCEPT !.numReplicas = ParseNat(a.val)]
      [] a.name = "--timeout" ->
            IF ParseNat(a.val) = -1 THEN [o EXCEPT !.ok = FALSE]
            ELSE [o EXCEPT !.transportTimeout = ParseNat(a.val)]
      [] a.name = "-L" -> [o EXCEPT !.localLocator = a.val[1]]
      [] a.name = "-C" -> [o EXCEPT !.coordinatorLocator = a.val[1]]
      [] a.name = "--clusterName" -> [o EXCEPT !.clusterName = a.val[1]]
      [] OTHER -> [o EXCEPT !.ok = FALSE]

RECURSIVE ParseArgs(_, _, _)
ParseArgs(av, i, o) ==
    IF i > Len(av) \/ ~o.ok THEN o
    ELSE ParseArgs(av, i + 1, BindOption(o, av[i]))

\* OptionParser optionParser(serverOptions, argc, argv): argv[0] is skipped
OptionParser(av) == ParseArgs(av, 2, Defaults)

\* the loop that joins the arguments with single spaces
Sep == Tok(" ", <<>>)

\* mutant: the separator is put before the first argument too
RECURSIVE JoinArgs_LeadingSpace(_, _, _)
JoinArgs_LeadingSpace(av, i, args) ==
    IF i > Len(av) THEN args
    ELSE JoinArgs_LeadingSpace(av, i + 1, Append(args, Sep) \o <<av[i]>>)

RECURSIVE JoinArgs(_, _, _)
JoinArgs(av, i, args) ==
    IF i > Len(av) THEN args
    ELSE JoinArgs(av, i + 1,
                  (IF i # 1 THEN Append(args, Sep) ELSE args) \o <<av[i]>>)

CommandLine(av) == JoinArgs(av, 1, <<>>)

-----------------------------------------------------------------------------
(* Role resolution.                                                        *)

\* mutant: the -B/-M check is missing
RoleConflict_NoCheck(masterOnly, backupOnly) == FALSE

RoleConflict(masterOnly, backupOnly) == masterOnly /\ backupOnly

\* mutant: the combined role forgets the backup service
Services_NoBackup(masterOnly, backupOnly) ==
    IF masterOnly THEN {"MASTER", "MEMBERSHIP", "PING"}
    ELSE IF backupOnly THEN {"BACKUP", "MEMBERSHIP", "PING"}
    ELSE {"MASTER", "MEMBERSHIP", "PING"}

\* mutant: the backup-only role forgets the membership service
Services_NoMembership(masterOnly, backupOnly) ==
    IF masterOnly THEN {"MASTER", "MEMBERSHIP", "PING"}
    ELSE IF backupOnly THEN {"BACKUP", "PING"}
    ELSE {"MASTER", "BACKUP", "MEMBERSHIP", "PING"}

Services(masterOnly, backupOnly) ==
    IF masterOnly THEN {"MASTER", "MEMBERSHIP", "PING"}
    ELSE IF backupOnly THEN {"BACKUP", "MEMBERSHIP", "PING"}
    ELSE {"MASTER", "BACKUP", "MEMBERSHIP", "PING"}

\* mutant: the sizing block is never entered
NeedsSizing_Never(backupOnly) == FALSE

\* mutant: the sizing block is entered whatever the role
NeedsSizing_Always(backupOnly) == TRUE

\* the condition under which main() sizes the master's memory
NeedsSizing(backupOnly) == ~backupOnly

-----------------------------------------------------------------------------
(* Memory sizing.                                                          *)

IsPercentage(d) == Len(d) > 0 /\ d[Len(d)] = "%"

\* One size directive against a reference total: a percentage p%, with
\* 0 < p <= 100, of the total, or a count of megabytes.
ResolveSize(d, total) ==
    IF IsPercentage(d)
    THEN LET p == ParseNat(SubSeq(d, 1, Len(d) - 1))
         IN  IF p >= 1 /\ p <= 100
             THEN [ok |-> TRUE, bytes |-> PercentOf(total, p)]
             ELSE [ok |-> FALSE, bytes |-> Zero]
    ELSE LET n == ParseNat(d)
         IN  IF n >= 0
             THEN [ok |-> TRUE, bytes |-> Megabytes(n)]
             ELSE [ok |-> FALSE, bytes |-> Zero]

\* mutant: both directives are resolved against system memory and the
\* hash table is not taken out of the master's memory
setLogAndHashTableSize_Independent(masterTotalMemory, hashTableMemory, total) ==
    LET m == ResolveSize(masterTotalMemory, total)
        h == ResolveSize(hashTableMemory, total)
    IN  IF m.ok /\ h.ok
        THEN [ok |-> TRUE, masterBytes |-> m.bytes,
              logBytes |-> m.bytes, hashTableBytes |-> h.bytes]
        ELSE [ok |-> FALSE, masterBytes |-> Zero,
              logBytes |-> Zero, hashTableBytes |-> Zero]

\* config.setLogAndHashTableSize(masterTotalMemory, hashTableMemory):
\* masterTotalMemory sizes the memory "for master log & hash table" out of
\* system memory; hashTableMemory sizes the part "of master memory
\* allocated to the hash table"; the log gets the rest.
setLogAndHashTableSize(masterTotalMemory, hashTableMemory, total) ==
    LET m == ResolveSize(masterTotalMemory, total)
        h == ResolveSize(hashTableMemory, m.bytes)
    IN  IF m.ok /\ h.ok /\ LessEq(h.bytes, m.bytes)
        THEN [ok |-> TRUE, masterBytes |-> m.bytes,
              logBytes |-> Minus(m.bytes, h.bytes),
              hashTableBytes |-> h.bytes]
        ELSE [ok |-> FALSE, masterBytes |-> Zero,
              logBytes |-> Zero, hashTableBytes |-> Zero]

-----------------------------------------------------------------------------
(* The transport manager.                                                  *)

\* the listening locators initialize() can end up with for a requested
\* locator: nothing listens without a locator; a bound transport reports
\* the locator as given or augmented
EffectiveLocators(requested) ==
    IF requested = "" THEN {""} ELSE {requested, BoundLocator}

TmCall(op, arg) == [op |-> op, arg |-> arg]

-----------------------------------------------------------------------------
(* The run of main().                                                      *)

\* One log line: its level, its format and its arguments.  An argument is
\* a text, written as a sequence of tokens like the command line.
LogEntry(level, msg, args) == [level |-> level, msg |-> msg, args |-> args]

\* a string as an argument of a log line (%s)
Text(str) == <<Tok(str, <<>>)>>

\* a number as an argument of a log line (%u)
NumberText(n) == <<Tok("%u", NatToText(n))>>

\* config.services.toString(): the services of the set, in a fixed order
ServiceOrder == <<"MASTER", "BACKUP", "MEMBERSHIP", "PING">>

RECURSIVE ServicesText(_, _)
ServicesText(services, i) ==
    IF i > Len(ServiceOrder) THEN <<>>
    ELSE (IF ServiceOrder[i] \in services THEN Text(ServiceOrder[i]) ELSE <<>>)
            \o ServicesText(services, i + 1)

ServicesToString(services) == ServicesText(services, 1)

\* ServerConfig::forExecution()
InitialConfig ==
    [ services |-> {},
      localLocator |-> "",
      coordinatorLocator |-> "",
      clusterName |-> "",
      master |-> [ numReplicas |-> 0,
                   logBytes |-> Zero,
                   hashTableBytes |-> Zero ] ]

InitialHist ==
    [ steps |-> <<>>,
      writes |-> <<>>,
      sizeCalls |-> 0,
      masterBytes |-> Zero,
      serverStarted |-> FALSE,
      failedAt |-> "none" ]

\* the frames of the backup's storage, all free
EmptyStorage == [f \in 1..MaxFrames |-> "free"]

Init ==
    /\ argv \in ArgvSet
    /\ totalMem \in TotalMemories
    /\ pc = "PARSING"
    /\ opts = Defaults
    /\ config = InitialConfig
    /\ tm = [ timeout |-> 0, listening |-> "", calls |-> <<>> ]
    /\ log = <<>>
    /\ exitCode = -1
    /\ hist = InitialHist
    /\ backup = [ storage |-> EmptyStorage, found |-> EmptyStorage, reused |-> {} ]

\* the value main() returns after server.run()
ExitCodeOnReturn == 0

\* mutant: a catch clause returns what the normal path returns
ExitCodeOnError_AsReturn == ExitCodeOnReturn

\* the value main() returns from a catch clause
ExitCodeOnError == 1

\* mutant: the error line carries the locator the user asked for
Catch_RequestedLocator(step, what, tmNow, logNow, histNow) ==
    /\ log' = Append(logNow,
                     LogEntry("ERROR", "Fatal error in server at",
                              <<Text(opts.localLocator), Text(what)>>))
    /\ exitCode' = ExitCodeOnError
    /\ pc' = "ABORTED"
    /\ hist' = [histNow EXCEPT !.steps = Append(@, step), !.failedAt = step]

\* An exception thrown at `step` reaches a catch clause of main(): the
\* error is logged with the transport manager's listening locators as
\* they are then (tmNow), and main() returns.
Catch(step, what, tmNow, logNow, histNow) ==
    /\ log' = Append(logNow,
                     LogEntry("ERROR", "Fatal error in server at",
                              <<Text(tmNow.listening), Text(what)>>))
    /\ exitCode' = ExitCodeOnError
    /\ pc' = "ABORTED"
    /\ hist' = [histNow EXCEPT !.steps = Append(@, step), !.failedAt = step]

\* DIE(...) in the role check: a fatal error with the given message, which
\* leaves main() through its catch clause
DIE(what) == Catch("validate", what, tm, log, hist)

\* OptionParser and the "Command line" log line
ParseOk ==
    /\ pc = "PARSING"
    /\ OptionParser(argv).ok
    /\ opts' = OptionParser(argv)
    /\ config' = [config EXCEPT !.master.numReplicas = opts'.numReplicas,
                                !.clusterName = opts'.clusterName]
    /\ log' = Append(log, LogEntry("NOTICE", "Command line", <<CommandLine(argv)>>))
    /\ pc' = "VALIDATING"
    /\ hist' = [hist EXCEPT !.steps = Append(@, "parse"),
                            !.writes = Append(@, "options")]
    /\ UNCHANGED <<backup, argv, totalMem, tm, exitCode>>

ParseFail ==
    /\ pc = "PARSING"
    /\ ~OptionParser(argv).ok
    /\ Catch("parse", "ParseError", tm, log, hist)
    /\ UNCHANGED <<backup, argv, totalMem, opts, config, tm>>

\* mutant: the sizing block is placed before the transport's initialization
\* (and the run goes from it to the server)
AfterValidate_SizeFirst == "SIZING"

\* where main() goes on after the services are chosen, and after the
\* "Listening on" line
AfterValidate == "TRANSPORT_BINDING"

\* mutant: the transport's initialization is tried again
AfterBind_Retry == "TRANSPORT_BINDING"

AfterBind == "SIZING"

\* the -B/-M check and the choice of services
ValidateOk ==
    /\ pc = "VALIDATING"
    /\ ~RoleConflict(opts.masterOnly, opts.backupOnly)
    /\ config' = [config EXCEPT
                    !.services = Services(opts.masterOnly, opts.backupOnly)]
    /\ pc' = AfterValidate
    /\ hist' = [hist EXCEPT !.steps = Append(@, "validate"),
                            !.writes = Append(@, "services")]
    /\ UNCHANGED <<backup, argv, totalMem, opts, tm, log, exitCode>>

ValidateConflict ==
    /\ pc = "VALIDATING"
    /\ RoleConflict(opts.masterOnly, opts.backupOnly)
    /\ DIE("Can't specify both -B and -M options")
    /\ UNCHANGED <<backup, argv, totalMem, opts, config, tm>>

\* the argument main() gives transportManager->initialize
InitializeArg(o) == o.localLocator

\* mutant: the timeout is set after the transport is initialized
TmInitializing_TimeoutAfter(o) ==
    [tm EXCEPT !.timeout = o.transportTimeout,
               !.calls = @ \o <<TmCall("initialize", InitializeArg(o)),
                                TmCall("setTimeout", o.transportTimeout)>>]

\* the transport manager after setTimeout and the call of initialize
TmInitializing(o) ==
    [tm EXCEPT !.timeout = o.transportTimeout,
               !.calls = @ \o <<TmCall("setTimeout", o.transportTimeout),
                                TmCall("initialize", InitializeArg(o))>>]

\* mutant: the configuration keeps the locator the user asked for
ListeningLocatorFor_Requested(t, o) == o.localLocator

\* the value main() stores in config.localLocator after initialize
ListeningLocatorFor(t, o) == t.listening

\* setTimeout, initialize, the two locators and the "Listening on" line
BindOk ==
    /\ pc = "TRANSPORT_BINDING"
    /\ \E eff \in EffectiveLocators(InitializeArg(opts)) :
          /\ tm' = [TmInitializing(opts) EXCEPT !.listening = eff]
          /\ config' = [config EXCEPT
                          !.coordinatorLocator = opts.coordinatorLocator,
                          !.localLocator = ListeningLocatorFor(tm', opts)]
          /\ log' = Append(log, LogEntry("NOTICE", "Listening on",
                                        <<ServicesToString(config'.services),
                                          Text(config'.localLocator)>>))
    /\ pc' = AfterBind
    /\ hist' = [hist EXCEPT !.steps = Append(@, "bind"),
                            !.writes = @ \o <<"coordinatorLocator", "localLocator">>]
    /\ UNCHANGED <<backup, argv, totalMem, opts, exitCode>>

BindFail ==
    /\ pc = "TRANSPORT_BINDING"
    /\ tm' = TmInitializing(opts)
    /\ Catch("bind", "TransportBindError", tm', log, hist)
    /\ UNCHANGED <<backup, argv, totalMem, opts, config>>

\* mutant: the replica count is not logged
LogReplicas_Missing(l, c) == l

\* the log after the "Using %u backups" line
LogReplicas(l, c) ==
    Append(l, LogEntry("NOTICE", "Using backups",
                       <<NumberText(c.master.numReplicas)>>))

\* mutant: the error of setLogAndHashTableSize is swallowed
Returned_Always(r) == TRUE

\* setLogAndHashTableSize returned (and did not throw), so that main()
\* goes on to construct the server
Returned(r) == r.ok

\* the sizing block (when not backup-only) and the Server constructor
SizeAndStart ==
    /\ pc = "SIZING"
    /\ LET r == setLogAndHashTableSize(opts.masterTotalMemory,
                                       opts.hashTableMemory, totalMem)
       IN  IF NeedsSizing(opts.backupOnly)
           THEN /\ Returned(r)
                /\ log' = LogReplicas(log, config)
                /\ config' = [config EXCEPT
                                !.master.logBytes = r.logBytes,
                                !.master.hashTableBytes = r.hashTableBytes]
                /\ hist' = [hist EXCEPT
                              !.steps = @ \o <<"size", "start">>,
                              !.writes = Append(@, "master sizes"),
                              !.sizeCalls = @ + 1,
                              !.masterBytes = r.masterBytes,
                              !.serverStarted = TRUE]
           ELSE /\ UNCHANGED <<log, config>>
                /\ hist' = [hist EXCEPT !.steps = Append(@, "start"),
                                        !.serverStarted = TRUE]
    /\ pc' = "FINALIZED"
    /\ UNCHANGED <<backup, argv, totalMem, opts, tm, exitCode>>

SizeFail ==
    /\ pc = "SIZING"
    /\ NeedsSizing(opts.backupOnly)
    /\ ~Returned(setLogAndHashTableSize(opts.masterTotalMemory,
                                        opts.hashTableMemory, totalMem))
    /\ Catch("size", "InvalidSizeSpec", tm, LogReplicas(log, config),
             [hist EXCEPT !.sizeCalls = @ + 1])
    /\ UNCHANGED <<backup, argv, totalMem, opts, config, tm>>

\* server.run() ends by an exception
RunThrows ==
    /\ pc = "FINALIZED"
    /\ Catch("run", "ServerRuntimeError", tm, log, hist)
    /\ UNCHANGED <<backup, argv, totalMem, opts, config, tm>>

\* server.run() returns
RunReturns ==
    /\ pc = "FINALIZED"
    /\ exitCode' = ExitCodeOnReturn
    /\ pc' = "EXITED"
    /\ hist' = [hist EXCEPT !.steps = Append(@, "run")]
    /\ UNCHANGED <<backup, argv, totalMem, opts, config, tm, log>>

Next ==
    \/ ParseOk
    \/ ParseFail
    \/ ValidateOk
    \/ ValidateConflict
    \/ BindOk
    \/ BindFail
    \/ SizeAndStart
    \/ SizeFail
    \/ RunThrows
    \/ RunReturns

Spec == Init /\ [][Next]_vars

\* the runs considered for termination: the replica count and the
\* transport timeout, which no branch of main() depends on, are left at
\* their defaults
FairInit ==
    /\ Init
    /\ \A i \in 1..Len(argv) : argv[i].name \notin {"-r", "--timeout"}

\* main() is sequential code: a statement that has been reached is
\* executed, provided the call before it returned (or threw).  What
\* server.run() does is not constrained: it need not return.
FairSpec ==
    /\ FairInit
    /\ [][Next]_vars
    /\ WF_vars(ParseOk \/ ParseFail)
    /\ WF_vars(ValidateOk \/ ValidateConflict)
    /\ WF_vars(BindOk \/ BindFail)
    /\ WF_vars(SizeAndStart \/ SizeFail)

-----------------------------------------------------------------------------
(* Properties of the run.  They are stated over the command line as given  *)
(* (argv), not over the parser's output.                                   *)

Given(n) == \E i \in 2..Len(argv) : argv[i].name = n

ValueOf(n, dflt) ==
    IF Given(n) THEN argv[CHOOSE i \in 2..Len(argv) : argv[i].name = n].val
    ELSE dflt

Did(step) == \E i \in 1..Len(hist.steps) : hist.steps[i] = step

Calls(op) == { i \in 1..Len(tm.calls) : tm.calls[i].op = op }

Terminated == pc \in {"ABORTED", "EXITED"}

\* C1: role resolution is total over (masterOnly, backupOnly): once the
\* role check has run, (true,true) has failed with the conflict and left
\* no service set; (true,false) gives {MASTER, MEMBERSHIP, PING};
\* (false,true) gives {BACKUP, MEMBERSHIP, PING}; (false,false) gives
\* {MASTER, BACKUP, MEMBERSHIP, PING}.
C1_RoleResolution ==
    Did("validate") =>
        /\ (Given("-M") /\ Given("-B")) =>
              hist.failedAt = "validate" /\ config.services = {}
        /\ (Given("-M") /\ ~Given("-B")) =>
              hist.failedAt # "validate"
                  /\ config.services = {"MASTER", "MEMBERSHIP", "PING"}
        /\ (~Given("-M") /\ Given("-B")) =>
              hist.failedAt # "validate"
                  /\ config.services = {"BACKUP", "MEMBERSHIP", "PING"}
        /\ (~Given("-M") /\ ~Given("-B")) =>
              hist.failedAt # "validate"
                  /\ config.services = {"MASTER", "BACKUP", "MEMBERSHIP", "PING"}

C1_Witness ==
    /\ Did("validate")
    /\ ~Given("-M") /\ ~Given("-B")
    /\ config.services = {"MASTER", "BACKUP", "MEMBERSHIP", "PING"}

\* C2: a run given both -M and -B never gets past the role check: it never
\* calls transportManager->initialize, never starts the server, and when
\* it has ended it has aborted with exit code 1.
C2_ConflictAborts ==
    (Given("-M") /\ Given("-B")) =>
        /\ Calls("initialize") = {}
        /\ ~hist.serverStarted
        /\ pc \in {"PARSING", "VALIDATING", "ABORTED"}
        /\ Terminated => exitCode = 1
        /\ Did("validate") => pc = "ABORTED" /\ exitCode = 1

C2_Witness ==
    /\ Given("-M") /\ Given("-B")
    /\ hist.failedAt = "validate"
    /\ pc = "ABORTED"
    /\ exitCode = 1

\* C3: the server is started only after every earlier step succeeded: the
\* options parsed, the role flags did not conflict, the transport was
\* initialized and its listening locator stored in the configuration, and,
\* unless backup-only, the memory sizes were resolved from valid
\* directives.  A run in which one of these steps failed never starts it.
C3_NoPartialSuccess ==
    /\ hist.serverStarted =>
          /\ Did("parse") /\ ~Given("--bogus")
          /\ Did("validate") /\ ~(Given("-M") /\ Given("-B"))
          /\ Did("bind") /\ Calls("initialize") # {}
          /\ config.localLocator = tm.listening
          /\ ~Given("-B") =>
                /\ Did("size")
                /\ setLogAndHashTableSize(ValueOf("-t", Pct(10)),
                                          ValueOf("-h", Pct(10)), totalMem).ok
    /\ hist.failedAt \in {"parse", "validate", "bind", "size"} =>
          ~hist.serverStarted /\ ~Did("start")

C3_Witness ==
    /\ hist.serverStarted
    /\ ~Given("-B")
    /\ Did("size")
    /\ pc = "FINALIZED"

\* C4: a run that failed at any step ends with exit code 1; exit code 0
\* is produced only by a return of server.run(); no other code occurs.
C4_ExitCode ==
    /\ exitCode \in {-1, 0, 1}
    /\ Terminated <=> exitCode # -1
    /\ hist.failedAt # "none" => pc = "ABORTED" /\ exitCode = 1
    /\ pc = "ABORTED" => hist.failedAt # "none"
    /\ exitCode = 0 =>
          /\ pc = "EXITED"
          /\ hist.failedAt = "none"
          /\ hist.serverStarted
          /\ hist.steps[Len(hist.steps)] = "run"

C4_Witness ==
    /\ hist.failedAt = "bind"
    /\ pc = "ABORTED"
    /\ exitCode = 1

\* position of a step in the order of main()
StepOrder == <<"parse", "validate", "bind", "size", "start", "run">>

Pos(step) == CHOOSE i \in 1..Len(StepOrder) : StepOrder[i] = step

\* the order the claim C5 states: sizing before transport binding
ClaimedOrder == <<"parse", "validate", "size", "bind", "start", "run">>

ClaimedPos(step) == CHOOSE i \in 1..Len(ClaimedOrder) : ClaimedOrder[i] = step

InitializeCalled == Calls("initialize") # {}

LastWrite == hist.writes[Len(hist.writes)]

\* C5 (as claimed): the steps run in the order parse, validate, size,
\* bind; when the run is not backup-only the sizes are resolved before the
\* transport is initialized, so that a run aborted by an invalid size
\* directive has opened no endpoint, and the update of localLocator is the
\* last mutation of the configuration handed to the server.
C5_SizingBeforeBinding ==
    /\ \A i, j \in 1..Len(hist.steps) :
          i < j => ClaimedPos(hist.steps[i]) < ClaimedPos(hist.steps[j])
    /\ (InitializeCalled /\ ~Given("-B")) => hist.sizeCalls = 1
    /\ hist.failedAt = "size" => ~InitializeCalled /\ tm.listening = ""
    /\ hist.serverStarted => LastWrite = "localLocator"

\* C5 (amended): the steps run in the order parse, validate, bind, size,
\* start, run, each at most once; the sizes are resolved only after the
\* transport has been initialized and its locator stored, so that a run
\* aborted by an invalid size directive has already initialized the
\* transport; the last mutation of the configuration handed to the server
\* is the store of the master sizes, or, in a backup-only run, the update
\* of localLocator.
C5_BindingBeforeSizing ==
    /\ \A i, j \in 1..Len(hist.steps) :
          i < j => Pos(hist.steps[i]) < Pos(hist.steps[j])
    /\ pc = "VALIDATING" => hist.steps = <<"parse">>
    /\ pc = "TRANSPORT_BINDING" => hist.steps = <<"parse", "validate">>
    /\ pc = "SIZING" => hist.steps = <<"parse", "validate", "bind">>
    /\ hist.sizeCalls >= 1 =>
          /\ InitializeCalled
          /\ config.localLocator = tm.listening
          /\ Did("bind") /\ hist.failedAt # "bind"
    /\ hist.failedAt = "size" => InitializeCalled
    /\ hist.serverStarted =>
          LastWrite = (IF Given("-B") THEN "localLocator" ELSE "master sizes")

C5_Witness ==
    /\ hist.failedAt = "size"
    /\ InitializeCalled
    /\ tm.listening = BoundLocator
    /\ pc = "ABORTED"

\* C6: when the server is started, initialize was called once, with the
\* local locator of the command line, and config.localLocator is the
\* transport's listening locator string, also when it differs from the
\* locator asked for.
C6_EffectiveLocator ==
    hist.serverStarted =>
        /\ Cardinality(Calls("initialize")) = 1
        /\ \A i \in Calls("initialize") :
              tm.calls[i].arg = (IF Given("-L") THEN ValueOf("-L", <<>>)[1] ELSE "")
        /\ config.localLocator = tm.listening
        /\ config.localLocator \in {"", RequestedLocator, BoundLocator}
        /\ config.localLocator = "" <=> ~Given("-L")

C6_Witness ==
    /\ hist.serverStarted
    /\ Given("-L")
    /\ tm.calls[2] = TmCall("initialize", RequestedLocator)
    /\ config.localLocator = BoundLocator
    /\ config.localLocator # RequestedLocator

\* the directives of the command line, with the defaults main() declares
TotalDirective == ValueOf("-t", Pct(10))

HashDirective == ValueOf("-h", Pct(10))

SizingSucceeded == hist.sizeCalls = 1 /\ hist.failedAt # "size"

\* r is x * p / 100 rounded to the nearest byte: -50 <= x*p - 100*r < 50
IsRounded(r, x, p) ==
    LET dh == x.mb * p - 100 * r.mb
        dl == x.b * p - 100 * r.b
    IN  /\ dh \in -200..200
        /\ dh * MB + dl \in -50..49

\* r is x * p / 100 to within one byte
IsWithinAByte(r, x, p) ==
    LET dh == x.mb * p - 100 * r.mb
        dl == x.b * p - 100 * r.b
    IN  /\ dh \in -200..200
        /\ dh * MB + dl \in -99..99

ValidPcts == { p \in PctValues : 0 < p /\ p <= 100 }

\* C7: a directive "p%" with 0 < p <= 100 resolves to round(total*p/100)
\* bytes of the total it is resolved against, and a directive "n" to
\* n * 1048576 bytes whatever the total: for the master's memory against
\* the system's memory, and for the hash table against the master's memory.
C7_SizeResolution ==
    SizingSucceeded =>
        /\ \A p \in ValidPcts :
              /\ TotalDirective = Pct(p) =>
                    IsRounded(hist.masterBytes, totalMem, p)
              /\ HashDirective = Pct(p) =>
                    IsRounded(config.master.hashTableBytes, hist.masterBytes, p)
        /\ \A n \in MbValues :
              /\ TotalDirective = NatToText(n) =>
                    hist.masterBytes = [mb |-> n, b |-> 0]
              /\ HashDirective = NatToText(n) =>
                    config.master.hashTableBytes = [mb |-> n, b |-> 0]

\* half of 1024MB + 7 bytes is not whole: the result is rounded up
C7_Witness ==
    /\ SizingSucceeded
    /\ TotalDirective = Pct(50)
    /\ totalMem = Bytes(1024, 7)
    /\ hist.masterBytes = Bytes(512, 4)
    /\ HashDirective = NatToText(1)
    /\ config.master.hashTableBytes = Megabytes(1)

\* C8 (as claimed): the log size is the totalMasterMemory directive
\* resolved against the system's memory and the hash-table size is the
\* hashTableMemory directive resolved against the system's memory, neither
\* depending on the other; so with the defaults and 16384MB both are 10% of
\* 16384MB, and with 2048, 10% and 8192MB the log is 2048MB and the hash
\* table 10% of 8192MB.
C8_IndependentSizes ==
    SizingSucceeded =>
        /\ \A p \in ValidPcts :
              /\ TotalDirective = Pct(p) =>
                    IsWithinAByte(config.master.logBytes, totalMem, p)
              /\ HashDirective = Pct(p) =>
                    IsWithinAByte(config.master.hashTableBytes, totalMem, p)
        /\ \A n \in MbValues :
              /\ TotalDirective = NatToText(n) =>
                    config.master.logBytes = [mb |-> n, b |-> 0]
              /\ HashDirective = NatToText(n) =>
                    config.master.hashTableBytes = [mb |-> n, b |-> 0]

\* C8 (amended): totalMasterMemory is resolved against the system's memory
\* and gives the master's memory M for log and hash table together;
\* hashTableMemory is resolved against M (a percentage is a share of M, a
\* number is megabytes); the log size is M less the hash-table size.  So
\* with the defaults and 16384MB, M is 10% of 16384MB, the hash table 10%
\* of M and the log the rest; with 2048, 10% and 8192MB, M is 2048MB, the
\* hash table 10% of 2048MB and the log the rest.
C8_HashTableWithinMaster ==
    SizingSucceeded =>
        /\ \A p \in ValidPcts :
              /\ TotalDirective = Pct(p) =>
                    IsWithinAByte(hist.masterBytes, totalMem, p)
              /\ HashDirective = Pct(p) =>
                    IsWithinAByte(config.master.hashTableBytes, hist.masterBytes, p)
        /\ \A n \in MbValues :
              /\ TotalDirective = NatToText(n) =>
                    hist.masterBytes = [mb |-> n, b |-> 0]
              /\ HashDirective = NatToText(n) =>
                    config.master.hashTableBytes = [mb |-> n, b |-> 0]
        /\ LessEq(config.master.hashTableBytes, hist.masterBytes)
        /\ Plus(config.master.logBytes, config.master.hashTableBytes)
              = hist.masterBytes
        /\ (~Given("-t") /\ ~Given("-h") /\ totalMem = Megabytes(16384)) =>
              /\ hist.masterBytes = Bytes(1638, 419430)
              /\ config.master.hashTableBytes.mb = 163
              /\ config.master.logBytes.mb = 1474
        /\ (TotalDirective = NatToText(2048) /\ ~Given("-h")) =>
              /\ hist.masterBytes = Megabytes(2048)
              /\ config.master.hashTableBytes.mb = 204
              /\ config.master.logBytes.mb = 1843

\* the second scenario of the claim: -M, 2048, 10% on a host of 8192MB
C8_Witness ==
    /\ SizingSucceeded
    /\ Given("-M")
    /\ TotalDirective = NatToText(2048)
    /\ HashDirective = Pct(10)
    /\ totalMem = Megabytes(8192)
    /\ config.services = {"MASTER", "MEMBERSHIP", "PING"}
    /\ config.master.hashTableBytes.mb = 204
    /\ hist.serverStarted

\* the invalid directives of the claim: "0%", "101%", "-5", "abc"
InvalidDirectives == { Pct(0), Pct(101), <<"-", "5">>, <<"a", "b", "c">> }

\* C9: in a run that is not backup-only and has an invalid size directive
\* (a percentage outside (0,100], a negative value, a word), the sizing
\* fails when it is reached: no byte count is stored, the server is not
\* started, and the run ends aborted with exit code 1.
C9_InvalidDirectiveRejected ==
    (~Given("-B")
        /\ (TotalDirective \in InvalidDirectives
              \/ HashDirective \in InvalidDirectives)) =>
        /\ ~hist.serverStarted
        /\ pc \notin {"FINALIZED", "EXITED"}
        /\ config.master.logBytes = Zero
        /\ config.master.hashTableBytes = Zero
        /\ Did("size") =>
              /\ hist.failedAt = "size"
              /\ pc = "ABORTED"
              /\ exitCode = 1

C9_Witness ==
    /\ ~Given("-B")
    /\ HashDirective = <<"a", "b", "c">>
    /\ TotalDirective \notin InvalidDirectives
    /\ hist.failedAt = "size"
    /\ exitCode = 1

\* C10: the sizing is done exactly when the process has a master role: a
\* backup-only run never invokes it, whatever the directives; a run that
\* is not backup-only and starts the server has invoked it exactly once;
\* so when the server is started, MASTER is among the services if and only
\* if the master's sizes were resolved.
C10_SizingIffMaster ==
    /\ hist.sizeCalls \in {0, 1}
    /\ Given("-B") => hist.sizeCalls = 0 /\ hist.failedAt # "size"
    /\ (hist.serverStarted /\ ~Given("-B")) => SizingSucceeded
    /\ hist.serverStarted => ("MASTER" \in config.services <=> SizingSucceeded)

C10_Witness ==
    /\ hist.serverStarted
    /\ Given("-B")
    /\ TotalDirective = <<"a", "b", "c">>
    /\ hist.sizeCalls = 0
    /\ "MASTER" \notin config.services

\* C11: whenever the configuration has been handed to the server, its
\* service set is not empty and is one of {MASTER, MEMBERSHIP, PING},
\* {BACKUP, MEMBERSHIP, PING} and {MASTER, BACKUP, MEMBERSHIP, PING}: so
\* MEMBERSHIP and PING are in it, and MASTER or BACKUP is.
C11_ServiceSet ==
    hist.serverStarted =>
        /\ config.services # {}
        /\ config.services \in { {"MASTER", "MEMBERSHIP", "PING"},
                                 {"BACKUP", "MEMBERSHIP", "PING"},
                                 {"MASTER", "BACKUP", "MEMBERSHIP", "PING"} }
        /\ {"MEMBERSHIP", "PING"} \subseteq config.services
        /\ "MASTER" \in config.services \/ "BACKUP" \in config.services

C11_Witness ==
    /\ hist.serverStarted
    /\ pc = "FINALIZED"
    /\ config.services = {"BACKUP", "MEMBERSHIP", "PING"}

-----------------------------------------------------------------------------
(* Reuse of replicas by cluster name.  A backup process finds in its       *)
(* storage the replicas earlier backup processes left, each tagged with    *)
(* the cluster name of the process that created it; it discards those it   *)
(* may not reuse and tags the replicas it creates with its own name.       *)

Unnamed == "__unnamed__"

ClusterNames == {Unnamed, "a", "b"}

\* mutant: cluster names are compared as ordinary strings
ClusterNameMatches_Equality(stored, mine) == stored = mine

\* a stored replica's cluster name matches the process's: identical names
\* match, except that "__unnamed__" never matches any name, even itself
ClusterNameMatches(stored, mine) ==
    stored # Unnamed /\ mine # Unnamed /\ stored = mine

\* the command lines of a backup given a cluster name
ClusterArgvSet ==
    { <<Tok("server", <<>>), Tok("-B", <<>>), Tok("--clusterName", <<c>>)>> :
        c \in ClusterNames }

\* the configuration main() hands to the server for such a command line
ConfigFor(av) ==
    [InitialConfig EXCEPT
        !.clusterName = OptionParser(av).clusterName,
        !.services = Services(OptionParser(av).masterOnly,
                              OptionParser(av).backupOnly)]

\* the first backup process about to start, on an empty storage
ReplicaInit ==
    /\ argv \in ClusterArgvSet
    /\ totalMem = Megabytes(8192)
    /\ pc = "BACKUP_STARTING"
    /\ opts = OptionParser(argv)
    /\ config = ConfigFor(argv)
    /\ tm = [ timeout |-> 0, listening |-> "", calls |-> <<>> ]
    /\ log = <<>>
    /\ exitCode = -1
    /\ hist = InitialHist
    /\ backup = [ storage |-> EmptyStorage, found |-> EmptyStorage, reused |-> {} ]

\* the frames holding a replica the process may reuse
Reusable(st, mine) ==
    { f \in 1..MaxFrames :
        st[f] # "free" /\ ClusterNameMatches(st[f], mine) }

\* start of the backup: replicas found in storage are discarded unless
\* tagged with a matching cluster name
BackupStart ==
    /\ pc = "BACKUP_STARTING"
    /\ LET keep == Reusable(backup.storage, config.clusterName)
       IN  backup' = [ storage |-> [f \in 1..MaxFrames |->
                                       IF f \in keep THEN backup.storage[f]
                                       ELSE "free"],
                       found |-> backup.storage,
                       reused |-> keep ]
    /\ pc' = "BACKUP_RUNNING"
    /\ UNCHANGED <<argv, totalMem, opts, config, tm, log, exitCode, hist>>

\* the backup creates a replica, tagged with its cluster name
BackupCreateReplica ==
    /\ pc = "BACKUP_RUNNING"
    /\ \E f \in 1..MaxFrames :
          /\ backup.storage[f] = "free"
          /\ backup' = [backup EXCEPT !.storage[f] = config.clusterName]
    /\ UNCHANGED <<argv, totalMem, pc, opts, config, tm, log, exitCode, hist>>

\* the process ends and a future backup process starts on the same storage
BackupRestart ==
    /\ pc = "BACKUP_RUNNING"
    /\ \E av \in ClusterArgvSet :
          /\ argv' = av
          /\ opts' = OptionParser(av)
          /\ config' = ConfigFor(av)
    /\ backup' = [backup EXCEPT !.found = backup.storage, !.reused = {}]
    /\ pc' = "BACKUP_STARTING"
    /\ UNCHANGED <<totalMem, tm, log, exitCode, hist>>

ReplicaNext ==
    \/ BackupStart
    \/ BackupCreateReplica
    \/ BackupRestart

ReplicaSpec == ReplicaInit /\ [][ReplicaNext]_vars

\* C12: under the matching rule used for the reuse of replicas,
\* "__unnamed__" matches no cluster name, not even itself, and any other
\* name matches exactly the identical name: a running backup has reused
\* exactly the replicas it found tagged with its own name, unless that
\* name is "__unnamed__"; a replica tagged "__unnamed__" is never reused,
\* a process named "__unnamed__" reuses none, and what is not reused is
\* discarded.
C12_ClusterNameMatching ==
    /\ \A f \in backup.reused :
          /\ backup.found[f] = config.clusterName
          /\ backup.found[f] # Unnamed
    /\ config.clusterName = Unnamed => backup.reused = {}
    /\ pc = "BACKUP_RUNNING" =>
          /\ \A f \in 1..MaxFrames :
                f \in backup.reused <=>
                    (backup.found[f] = config.clusterName
                        /\ config.clusterName # Unnamed)
          /\ \A f \in 1..MaxFrames :
                backup.storage[f] \in {"free", config.clusterName}

\* a process named "__unnamed__" finds the replicas an earlier process
\* named "__unnamed__" left, and discards them
C12_Witness ==
    /\ pc = "BACKUP_RUNNING"
    /\ config.clusterName = Unnamed
    /\ \A f \in 1..MaxFrames : backup.found[f] = Unnamed
    /\ backup.reused = {}
    /\ \A f \in 1..MaxFrames : backup.storage[f] = "free"

-----------------------------------------------------------------------------
(* Re-resolution of resolved sizes.                                        *)

\* the number of bytes of a quantity below 2047MB (so that it can be
\* written as a directive)
Fits(q) == q.mb < 2047

ByteCount(q) == q.mb * MB + q.b

\* C13 (as claimed): the byte counts of a resolved configuration, fed back
\* through the size resolver as absolute values, come out unchanged: the
\* log size and the hash-table size stay what they were.
C13_ReresolveBytesNoOp ==
    (SizingSucceeded /\ Fits(config.master.logBytes)
        /\ Fits(config.master.hashTableBytes)) =>
        LET again == setLogAndHashTableSize(
                        NatToText(ByteCount(config.master.logBytes)),
                        NatToText(ByteCount(config.master.hashTableBytes)),
                        totalMem)
        IN  /\ again.ok
            /\ again.logBytes = config.master.logBytes
            /\ again.hashTableBytes = config.master.hashTableBytes

\* C13 (amended): an absolute value is a count of megabytes, so a resolved
\* byte count b fed back as an absolute value resolves to b * 1048576
\* bytes: it is unchanged only when it is 0.  What is unchanged is this:
\* when the resolved master memory and hash-table size are whole numbers
\* of megabytes, feeding these numbers of megabytes back as the two
\* directives gives the same log size and hash-table size again, whatever
\* the total memory.
C13_ReresolveMegabytes ==
    SizingSucceeded =>
        /\ Fits(config.master.hashTableBytes) =>
              LET b == ByteCount(config.master.hashTableBytes)
                  again == ResolveSize(NatToText(b), totalMem)
              IN  /\ again.ok
                  /\ again.bytes = [mb |-> b, b |-> 0]
                  /\ again.bytes = config.master.hashTableBytes <=> b = 0
        /\ (hist.masterBytes.b = 0 /\ config.master.hashTableBytes.b = 0) =>
              \A total \in TotalMemories :
                  LET again == setLogAndHashTableSize(
                                  NatToText(hist.masterBytes.mb),
                                  NatToText(config.master.hashTableBytes.mb),
                                  total)
                  IN  /\ again.ok
                      /\ again.logBytes = config.master.logBytes
                      /\ again.hashTableBytes = config.master.hashTableBytes

\* half of 8192MB less 1MB of hash table: 4096 and 1 fed back give 4095MB
\* and 1MB again
C13_Witness ==
    /\ SizingSucceeded
    /\ TotalDirective = Pct(50)
    /\ HashDirective = NatToText(1)
    /\ totalMem = Megabytes(8192)
    /\ hist.masterBytes = [mb |-> 4096, b |-> 0]
    /\ config.master.logBytes = [mb |-> 4095, b |-> 0]
    /\ config.master.hashTableBytes = [mb |-> 1, b |-> 0]

-----------------------------------------------------------------------------
(* Retries, termination and the log.                                       *)

LogLines(msg) == { i \in 1..Len(log) : log[i].msg = msg }

\* no step of the run has been executed twice
NoRetry ==
    /\ \A i, j \in 1..Len(hist.steps) : i # j => hist.steps[i] # hist.steps[j]
    /\ Cardinality(Calls("initialize")) <= 1
    /\ Cardinality(Calls("setTimeout")) <= 1
    /\ Cardinality(LogLines("Command line")) <= 1
    /\ hist.sizeCalls <= 1

\* C14: no step (option parsing, role validation, transport initialize,
\* size resolution) is executed more than once in a run; nothing happens
\* after the run has aborted; and, the calls made by main() returning,
\* every run gets to FINALIZED (the server has the configuration) or to
\* ABORTED.
C14_NoRetryTerminates ==
    /\ []NoRetry
    /\ [][pc # "ABORTED"]_vars
    /\ <>(pc \in {"FINALIZED", "ABORTED"})

C14_Witness ==
    /\ pc = "FINALIZED"
    /\ hist.steps = <<"parse", "validate", "bind", "size", "start">>
    /\ Cardinality(Calls("initialize")) = 1
    /\ hist.sizeCalls = 1

ParsedOk == Did("parse") /\ hist.failedAt # "parse"

\* C15: a run whose options parsed has logged exactly one NOTICE line
\* with the command line, all arguments in the order of argv joined by
\* single spaces, as its first line, hence before the role check: a run
\* aborted by conflicting flags has it too.  No run logs it twice, and a
\* run whose options did not parse does not log it.
C15_CommandLineLogged ==
    /\ ParsedOk =>
          /\ LogLines("Command line") = {1}
          /\ log[1].level = "NOTICE"
          /\ LET a == log[1].args[1]
             IN  /\ Len(log[1].args) = 1
                 /\ Len(a) = 2 * Len(argv) - 1
                 /\ \A k \in 1..Len(argv) : a[2 * k - 1] = argv[k]
                 /\ \A k \in 1..(Len(argv) - 1) : a[2 * k] = Sep
    /\ ~ParsedOk => LogLines("Command line") = {}
    /\ hist.failedAt = "validate" =>
          /\ Len(log) = 2
          /\ log[1].msg = "Command line"
          /\ log[2].level = "ERROR"

C15_Witness ==
    /\ hist.failedAt = "validate"
    /\ Len(argv) = 3
    /\ log[1].msg = "Command line"
    /\ log[1].args[1] =
          <<Tok("server", <<>>), Sep, Tok("-B", <<>>), Sep, Tok("-M", <<>>)>>

\* the replica count of the command line
ExpectedReplicas ==
    IF Given("-r")
    THEN CHOOSE n \in 1..MaxReplicas : NatToText(n) = ValueOf("-r", <<>>)
    ELSE 0

\* C16: a run that is not backup-only and has got to the sizing has logged
\* exactly one NOTICE line with the replica count, before the sizes were
\* resolved: it is there when the sizing failed, followed by the error
\* line.  A backup-only run, or one that has not got to the sizing, has
\* not logged it.
C16_ReplicaCountLogged ==
    /\ (~Given("-B") /\ Did("size")) =>
          /\ Cardinality(LogLines("Using backups")) = 1
          /\ \A i \in LogLines("Using backups") :
                /\ log[i].level = "NOTICE"
                /\ log[i].args = <<<<Tok("%u", NatToText(ExpectedReplicas))>>>>
                /\ i = 3
                /\ hist.failedAt = "size" =>
                      i = Len(log) - 1 /\ log[Len(log)].level = "ERROR"
    /\ (Given("-B") \/ ~Did("size")) => LogLines("Using backups") = {}

C16_Witness ==
    /\ hist.failedAt = "size"
    /\ Given("-r")
    /\ LogLines("Using backups") = {3}
    /\ log[3].args = <<<<Tok("%u", <<"1">>)>>>>
    /\ Len(log) = 4

\* C17: the NOTICE line "Listening on" is logged only once the transport
\* is initialized, with the services and the transport's listening
\* locator (not the locator asked for, when they differ), and never in a
\* run that aborted before; an aborted run has as its last line an ERROR
\* line with the transport's listening locator string as it was at the
\* failure: empty for a failure before or in the initialization, the
\* listening locator for a failure after it.
C17_LocatorInLogLines ==
    /\ LogLines("Listening on") =
          (IF Did("bind") /\ hist.failedAt # "bind" THEN {2} ELSE {})
    /\ \A i \in LogLines("Listening on") :
          /\ log[i].level = "NOTICE"
          /\ log[i].args[1] = ServicesToString(config.services)
          /\ log[i].args[2] = <<Tok(tm.listening, <<>>)>>
          /\ tm.listening = "" <=> ~Given("-L")
    /\ pc = "ABORTED" =>
          /\ log[Len(log)].level = "ERROR"
          /\ log[Len(log)].args[1] =
                (IF hist.failedAt \in {"parse", "validate", "bind"}
                 THEN <<Tok("", <<>>)>>
                 ELSE <<Tok(tm.listening, <<>>)>>)
          /\ Cardinality({ i \in 1..Len(log) : log[i].level = "ERROR" }) = 1
    /\ pc # "ABORTED" => { i \in 1..Len(log) : log[i].level = "ERROR" } = {}

C17_Witness ==
    /\ hist.failedAt = "run"
    /\ Given("-L")
    /\ tm.listening = BoundLocator
    /\ log[2].args[2] = <<Tok(BoundLocator, <<>>)>>
    /\ log[Len(log)].level = "ERROR"
    /\ log[Len(log)].args[1] = <<Tok(BoundLocator, <<>>)>>

\* the transport timeout of the command line
ExpectedTimeout ==
    IF Given("--timeout")
    THEN CHOOSE n \in 1..MaxTimeout : NatToText(n) = ValueOf("--timeout", <<>>)
    ELSE 0

\* C18: a run that has got to the transport binding has given the
\* transport the timeout of the options, unchanged, before it called
\* initialize and never after; a run that has started the server has the
\* coordinator locator of the options, unchanged, in its configuration.
C18_ForwardedInputs ==
    /\ Did("bind") =>
          /\ tm.calls =
                <<TmCall("setTimeout", ExpectedTimeout),
                  TmCall("initialize",
                         IF Given("-L") THEN ValueOf("-L", <<>>)[1] ELSE "")>>
          /\ tm.timeout = ExpectedTimeout
    /\ ~Did("bind") => tm.calls = <<>>
    /\ hist.serverStarted =>
          config.coordinatorLocator =
              (IF Given("-C") THEN ValueOf("-C", <<>>)[1] ELSE "")

C18_Witness ==
    /\ hist.serverStarted
    /\ Given("--timeout")
    /\ Given("-C")
    /\ tm.timeout = 1
    /\ tm.calls[1] = TmCall("setTimeout", 1)
    /\ config.coordinatorLocator = CoordLocator

====
